---- MODULE Spec2Model ----
(***************************************************************************)
(* A model of Gaffer's Process (src/src/Gaffer/Process.cpp): the per-thread *)
(* stack of running Processes, the process-wide monitor registry, the      *)
(* per-thread error source and the error reporting done while an exception *)
(* unwinds through nested Processes.                                        *)
(*                                                                         *)
(* Threads run the evaluator's code.  Each thread has a position `pc`:     *)
(*   "run"      executing ordinary code (inside the current Process, or    *)
(*              outside any Process)                                       *)
(*   "ctor"     inside Process::Process, in the loop over g_activeMonitors *)
(*   "dtor"     inside Process::~Process, in the loop over g_activeMonitors*)
(*   "catch"    an exception is active inside the current Process          *)
(*   "unwind"   handleException() rethrew; the exception is leaving the    *)
(*              current Process, whose destructor runs next                *)
(*   "escaped"  the exception left the outermost Process of the thread     *)
(*   "quiesce"  inside BackgroundTask::cancelAllTasks()                    *)
(*   "mutate"   inserting into / erasing from g_activeMonitors             *)
(*   "wait"     waiting for work handed to another thread                  *)
(*   "hung"     inside a loop that does not terminate                      *)
(***************************************************************************)
EXTENDS Integers, Sequences, FiniteSets, TLC

\* Bounds of the model.
MaxProcs == 3        \* Process objects constructed in one behaviour
NumPlugs == 3        \* plugs of the graph
NumMonitors == 2     \* Monitor objects
MaxCalls == 3        \* calls of registerMonitor and deregisterMonitor in one behaviour

\* A null pointer.  Objects are numbered from 1.
nullptr == 0

Threads == {1, 2}
\* Threads that register and deregister monitors and launch background tasks.
MainThreads == {1}
\* Threads that may run a BackgroundTask.
TaskThreads == {2}

ProcIds == 1 .. MaxProcs
Plugs == 1 .. NumPlugs
Monitors == 1 .. NumMonitors

VARIABLES
    \* the graph: Plug::getInput(), Plug::direction(), Plug::node()
    input, direction, node,
    \* Process objects, numbered in the order of construction
    nextId,          \* the number of the next Process object
    pstate,          \* "unborn", "live", "dead", or "cancelled" (constructor threw)
    owner,           \* the thread that constructed the Process
    m_plug, m_downstream, m_parent,
    \* per thread
    m_process,       \* ThreadState::current().m_process
    scopeBase,       \* the Process a ThreadState::Scope handed over from another thread
    canceller,       \* whether the thread's canceller has been cancelled
    exc,             \* the active exception: "none", "Cancelled", "typed", "untyped"
    pc,
    g_errorSource,
    task,            \* whether the thread is running a BackgroundTask
    pending,         \* the registry operation the thread is in: <<"insert"|"erase", m>>
    \* the monitor registry, and what each monitor has been told
    g_activeMonitors,
    started,         \* started[m]: the Processes m received processStarted for
    finished,        \* finished[m]: the Processes m received processFinished for
    \* the node error callbacks invoked on each thread since its exception was raised
    signals,
    \* the Processes whose handleException() saw the thread's active exception
    observed,
    \* g_errorSource of the thread when its active exception was raised
    srcAtThrow,
    \* nextId at the most recent registerMonitor( m ) of an unregistered m: the
    \* Processes numbered from regAt[m] were constructed after that call
    regAt,
    \* the number of registerMonitor and deregisterMonitor calls made
    calls,
    \* the registered monitors, in the order of the registerMonitor calls that
    \* registered them
    regOrder,
    \* registrations[m]: the registerMonitor( m ) calls that returned since the
    \* last deregisterMonitor( m ) returned
    registrations,
    \* the monitors the most recent loop over g_activeMonitors called, in the
    \* order of the calls
    notified

graph == <<input, direction, node>>
procs == <<nextId, pstate, owner, m_plug, m_downstream, m_parent>>
thrds == <<m_process, scopeBase, canceller, exc, pc, g_errorSource, task, pending>>
mons == <<g_activeMonitors, started, finished, regAt, calls, regOrder,
          registrations, notified>>
errs == <<signals, observed, srcAtThrow>>
vars == <<graph, procs, thrds, mons, errs>>

Upd(f, k, v) == [f EXCEPT ![k] = v]

----------------------------------------------------------------------------
(* Queries *)

\* Process::current(), for the calling thread t
current(t) == m_process[t]

\* Process::parent()
parent(p) == m_parent[p]

\* Process::plug()
plug(p) == m_plug[p]

\* Process::monitorRegistered()
monitorRegistered(m) == m \in g_activeMonitors

\* The Processes that were constructed and are not yet destroyed.
LiveProcs == {p \in ProcIds : pstate[p] = "live"}

\* The Processes thread t constructed and has not destroyed.
LiveOn(t) == {p \in LiveProcs : owner[p] = t}

\* The most recently constructed Process of S, or null if S is empty.
Newest(S) == IF S = {} THEN nullptr ELSE CHOOSE p \in S : \A q \in S : q <= p

\* `this` in the constructor or destructor thread t is executing.  Processes
\* are scoped objects, so the one under construction or destruction is the
\* newest one the thread has not destroyed.
Self(t) == Newest(LiveOn(t))

\* A constructor that does not make the new Process the current one before
\* it calls the monitors.
Published_late(t, p) == m_process[t]

\* m_threadState->m_process = this
Published(t, p) == p

\* A constructor that does not consult the canceller.
CancellerCheckThrows_never(t) == FALSE

\* IECore::Canceller::check( context()->canceller() ) throws Cancelled
CancellerCheckThrows(t) == canceller[t]

\* A constructor that does not link the new Process to the current one.
LinkParent_unlinked(t) == nullptr

\* The Process the constructor stores as m_parent
LinkParent(t) == m_process[t]

\* m_downstream( downstream ? downstream : plug )
InitDownstream(p, downstream) == IF downstream # nullptr THEN downstream ELSE p

\* What ThreadState::Scope's destructor (the base class of Process) leaves as
\* the thread's current Process when Process p goes out of scope.
ScopeRestore(p) == m_parent[p]

\* A destructor that clears the thread's error source for every Process.
ClearedErrorSource_always(p, src) == nullptr

\* The destructor clears the thread's error source for a Process without parent
ClearedErrorSource(p, src) == IF parent(p) = nullptr THEN nullptr ELSE src

----------------------------------------------------------------------------
(* Process::emitError *)

\* A loop that follows the input connections past the Process's own plug.
EmitNext_pastTarget(pl, target) == input[pl]

\* The loop's step: plug = plug != m_plug ? plug->getInput() : nullptr
EmitNext(pl, target) == IF pl # target THEN input[pl] ELSE nullptr

\* The plugs the while loop visits, starting at pl; at most `fuel` of them.
RECURSIVE EmitWalk(_, _, _)
EmitWalk(pl, target, fuel) ==
    IF pl = nullptr \/ fuel = 0
    THEN <<>>
    ELSE <<pl>> \o EmitWalk(EmitNext(pl, target), target, fuel - 1)

\* The loop ends iff it reaches a null plug before it visits some plug twice.
EmitTerminates(p) ==
    Len(EmitWalk(m_downstream[p], m_plug[p], NumPlugs + 1)) <= NumPlugs

\* A loop body that does not test the plug's direction.
EmitSignals_anyDirection(pl) == node[pl] # nullptr

\* Whether the loop body calls node->errorSignal() for plug pl
EmitSignals(pl) == direction[pl] = "Out" /\ node[pl] # nullptr

\* The errorSignal calls of emitError( error ) on Process p, in order, when the
\* thread's error source is src.
emitError(p, src, error) ==
    LET walk == EmitWalk(m_downstream[p], m_plug[p], NumPlugs + 1)
        hits == SelectSeq(walk, EmitSignals)
    IN  [i \in 1 .. Len(hits) |->
            [proc |-> p, node |-> node[hits[i]], plug |-> hits[i],
             source |-> src, error |-> error]]

----------------------------------------------------------------------------
(* Process::handleException *)

\* e.what() of the typed exception the model raises
what(e) == "what"

\* A handleException() that records its own plug at every level.
RecordErrorSource_overwrite(p, src) == plug(p)

\* The error source after `if( !g_errorSource.local() ) g_errorSource.local() = plug()`
RecordErrorSource(p, src) == IF src = nullptr THEN plug(p) ELSE src

\* A handleException() whose first handler is the one for std::exception, so that
\* a cancellation is reported like any other typed exception.
handleException_reportsCancelled(p, e, src) ==
    IF e \in {"Cancelled", "typed"}
    THEN [source |-> RecordErrorSource(p, src),
          emitted |-> emitError(p, RecordErrorSource(p, src), what(e)),
          thrown |-> e]
    ELSE [source |-> RecordErrorSource(p, src),
          emitted |-> emitError(p, RecordErrorSource(p, src), "Unknown error"),
          thrown |-> e]

\* A handleException() whose catch( ... ) handler does not rethrow.
handleException_swallowsUnknown(p, e, src) ==
    IF e = "Cancelled"
    THEN [source |-> src, emitted |-> <<>>, thrown |-> e]
    ELSE IF e = "typed"
    THEN [source |-> RecordErrorSource(p, src),
          emitted |-> emitError(p, RecordErrorSource(p, src), what(e)),
          thrown |-> e]
    ELSE [source |-> RecordErrorSource(p, src),
          emitted |-> emitError(p, RecordErrorSource(p, src), "Unknown error"),
          thrown |-> "none"]

\* A handleException() that reports the error only at the level that records
\* the error source.
handleException_reportsAtSourceOnly(p, e, src) ==
    IF e = "Cancelled"
    THEN [source |-> src, emitted |-> <<>>, thrown |-> e]
    ELSE [source |-> RecordErrorSource(p, src),
          emitted |-> IF src # nullptr THEN <<>>
                      ELSE emitError(p, plug(p), IF e = "typed" THEN what(e)
                                                 ELSE "Unknown error"),
          thrown |-> e]

\* handleException() on Process p with active exception e and thread error
\* source src: the new error source, the errorSignal calls made and the exception
\* that leaves the function ("none" if it returned).
handleException(p, e, src) ==
    IF e = "Cancelled"
    THEN [source |-> src, emitted |-> <<>>, thrown |-> e]
    ELSE IF e = "typed"
    THEN [source |-> RecordErrorSource(p, src),
          emitted |-> emitError(p, RecordErrorSource(p, src), what(e)),
          thrown |-> e]
    ELSE [source |-> RecordErrorSource(p, src),
          emitted |-> emitError(p, RecordErrorSource(p, src), "Unknown error"),
          thrown |-> e]

----------------------------------------------------------------------------
(* Process::registerMonitor, Process::deregisterMonitor *)

\* g_activeMonitors.insert( monitor )
registerMonitor(reg, m) == reg \cup {m}

\* g_activeMonitors.erase( monitor )
deregisterMonitor(reg, m) == reg \ {m}

\* The registration order after the insert of m into registry reg: an insert
\* of a monitor that is registered already changes nothing.
Registered(order, reg, m) == IF m \in reg THEN order ELSE Append(order, m)

\* The registration order after the erase of m.
Deregistered(order, m) == SelectSeq(order, LAMBDA x : x # m)

\* BackgroundTask::cancelAllTasks() cancels every running task ...
CancelAllTasks == [u \in Threads |-> canceller[u] \/ task[u]]

\* ... and returns when none is running.
TasksQuiesced == \A u \in Threads : ~task[u]

\* A loop over the registry that calls no monitor once the thread's canceller
\* is cancelled.
Notified_unlessCancelled(t) == IF canceller[t] THEN {{}} ELSE {g_activeMonitors}

\* The registries a loop over g_activeMonitors on thread t may see.  A loop that
\* runs while another thread inserts or erases m is a data race: it may or may
\* not see m.
Notified(t) ==
    IF \E u \in Threads \ {t} : pc[u] = "mutate"
    THEN LET u == CHOOSE u \in Threads \ {t} : pc[u] = "mutate"
             m == pending[u][2]
         IN  {g_activeMonitors \ {m}, g_activeMonitors \cup {m}}
    ELSE {g_activeMonitors}

\* The order in which a loop from begin() to end() visits the flat_set D of
\* Monitor pointers: by ascending pointer value.  A Monitor's number stands for
\* its address.
RECURSIVE Iteration(_)
Iteration(D) ==
    IF D = {}
    THEN <<>>
    ELSE LET m == CHOOSE x \in D : \A y \in D : x <= y
         IN  <<m>> \o Iteration(D \ {m})

\* Monitor callbacks: `log` after every monitor of D was told about Process p.
Tell(log, D, p) == [m \in Monitors |-> IF m \in D THEN log[m] \cup {p} ELSE log[m]]

----------------------------------------------------------------------------
(* Initial states *)

\* The graph of the main specification: a chain of connections
\* NumPlugs -> ... -> 2 -> 1 over output plugs, every third plug an input plug,
\* two plugs per node.
ChainGraph ==
    /\ input = [q \in Plugs |-> q - 1]
    /\ direction = [q \in Plugs |-> IF q % 3 = 0 THEN "In" ELSE "Out"]
    /\ node = [q \in Plugs |-> (q + 1) \div 2]

\* The (plug, downstream) arguments the evaluator constructs Processes with in
\* the main specification; a null downstream is the default argument.
ProcArgs == {<<1, nullptr>>, <<1, 3>>, <<2, nullptr>>}

InitProcs ==
    /\ nextId = 1
    /\ pstate = [p \in ProcIds |-> "unborn"]
    /\ owner = [p \in ProcIds |-> nullptr]
    /\ m_plug = [p \in ProcIds |-> nullptr]
    /\ m_downstream = [p \in ProcIds |-> nullptr]
    /\ m_parent = [p \in ProcIds |-> nullptr]

InitThreads ==
    /\ m_process = [t \in Threads |-> nullptr]
    /\ scopeBase = [t \in Threads |-> nullptr]
    /\ canceller = [t \in Threads |-> FALSE]
    /\ exc = [t \in Threads |-> "none"]
    /\ pc = [t \in Threads |-> "run"]
    /\ g_errorSource = [t \in Threads |-> nullptr]
    /\ task = [t \in Threads |-> FALSE]
    /\ pending = [t \in Threads |-> <<"none", nullptr>>]
    /\ signals = [t \in Threads |-> <<>>]
    /\ observed = [t \in Threads |-> <<>>]
    /\ srcAtThrow = [t \in Threads |-> nullptr]

\* The orders in which the monitors of D may have been registered.
Orders(D) ==
    {s \in [1 .. Cardinality(D) -> D] : \A i, j \in 1 .. Cardinality(D) : i # j => s[i] # s[j]}

InitMonitors ==
    /\ started = [m \in Monitors |-> {}]
    /\ finished = [m \in Monitors |-> {}]
    /\ regAt = [m \in Monitors |-> 1]
    /\ calls = 0
    /\ notified = <<>>


----------------------------------------------------------------------------
(* Process::Process and Process::~Process *)

\* Where an exception raised on thread t continues once the thread's current
\* Process is cur: in the code running inside cur, or past the thread's
\* outermost Process.
Lands(t, cur) == IF cur # scopeBase[t] THEN "catch" ELSE "escaped"

\* A new exception becomes active on thread t.
Raised(t) ==
    /\ signals' = Upd(signals, t, <<>>)
    /\ observed' = Upd(observed, t, <<>>)
    /\ srcAtThrow' = Upd(srcAtThrow, t, g_errorSource[t])

\* The exception of thread t was caught and not rethrown.
Settled(t) ==
    /\ signals' = Upd(signals, t, <<>>)
    /\ observed' = Upd(observed, t, <<>>)
    /\ srcAtThrow' = Upd(srcAtThrow, t, nullptr)

\* Process::Process( type, plug, downstream ) up to the loop over the monitors.
Construct(t, pl, downstream) ==
    /\ pc[t] = "run"
    /\ nextId <= MaxProcs
    /\ nextId' = nextId + 1
    /\ owner' = Upd(owner, nextId, t)
    /\ m_plug' = Upd(m_plug, nextId, pl)
    /\ m_downstream' = Upd(m_downstream, nextId, InitDownstream(pl, downstream))
    /\ IF CancellerCheckThrows(t)
       THEN /\ pstate' = Upd(pstate, nextId, "cancelled")
            /\ exc' = Upd(exc, t, "Cancelled")
            /\ pc' = Upd(pc, t, Lands(t, m_process[t]))
            /\ Raised(t)
            /\ UNCHANGED <<m_parent, m_process>>
       ELSE /\ pstate' = Upd(pstate, nextId, "live")
            /\ m_parent' = Upd(m_parent, nextId, LinkParent(t))
            /\ m_process' = Upd(m_process, t, Published(t, nextId))
            /\ pc' = Upd(pc, t, "ctor")
            /\ UNCHANGED <<exc, errs>>
    /\ UNCHANGED <<graph, scopeBase, canceller, g_errorSource, task, pending, mons>>

\* The constructor's loop: processStarted( this ) on the monitors.
NotifyStarted(t) ==
    /\ pc[t] = "ctor"
    /\ \E D \in Notified(t) :
        /\ started' = Tell(started, D, Self(t))
        /\ notified' = Iteration(D)
    /\ pc' = Upd(pc, t, "run")
    /\ UNCHANGED <<graph, procs, m_process, scopeBase, canceller, exc,
                   g_errorSource, task, pending, g_activeMonitors, finished,
                   regAt, calls, regOrder, registrations, errs>>

\* The current Process of thread t goes out of scope, at the end of its
\* computation or because an exception leaves it: Process::~Process begins.
DestructBegin(t) ==
    /\ pc[t] \in {"run", "unwind"}
    /\ m_process[t] # scopeBase[t]
    /\ pc' = Upd(pc, t, "dtor")
    /\ UNCHANGED <<graph, procs, m_process, scopeBase, canceller, exc,
                   g_errorSource, task, pending, mons, errs>>

\* The destructor's loop, processFinished( this ) on the monitors, the reset of
\* the error source, and the base class's destructor.
DestructEnd(t) ==
    /\ pc[t] = "dtor"
    /\ \E D \in Notified(t) :
        /\ finished' = Tell(finished, D, Self(t))
        /\ notified' = Iteration(D)
    /\ g_errorSource' =
           Upd(g_errorSource, t, ClearedErrorSource(Self(t), g_errorSource[t]))
    /\ m_process' = Upd(m_process, t, ScopeRestore(Self(t)))
    /\ pstate' = Upd(pstate, Self(t), "dead")
    /\ pc' = Upd(pc, t, IF exc[t] = "none" THEN "run"
                        ELSE Lands(t, ScopeRestore(Self(t))))
    /\ UNCHANGED <<graph, nextId, owner, m_plug, m_downstream, m_parent, scopeBase,
                   canceller, exc, task, pending, g_activeMonitors, started,
                   regAt, calls, regOrder, registrations, errs>>

----------------------------------------------------------------------------
(* Exceptions *)

\* The computation of the thread's current Process throws.
Throw(t, e) ==
    /\ pc[t] = "run"
    /\ m_process[t] # scopeBase[t]
    /\ exc' = Upd(exc, t, e)
    /\ pc' = Upd(pc, t, "catch")
    /\ Raised(t)
    /\ UNCHANGED <<graph, procs, m_process, scopeBase, canceller, g_errorSource,
                   task, pending, mons>>

\* The evaluator's catch block of the current Process calls handleException().
HandleException(t) ==
    /\ pc[t] = "catch"
    /\ LET r == handleException(m_process[t], exc[t], g_errorSource[t]) IN
       /\ g_errorSource' = Upd(g_errorSource, t, r.source)
       /\ signals' = Upd(signals, t, signals[t] \o r.emitted)
       /\ exc' = Upd(exc, t, r.thrown)
       /\ pc' = Upd(pc, t,
                IF exc[t] # "Cancelled" /\ ~EmitTerminates(m_process[t]) THEN "hung"
                ELSE IF r.thrown = "none" THEN "run" ELSE "unwind")
    /\ observed' = Upd(observed, t, Append(observed[t], m_process[t]))
    /\ UNCHANGED <<graph, procs, m_process, scopeBase, canceller, task, pending,
                   mons, srcAtThrow>>

\* The code running inside the current Process catches the exception and does
\* not rethrow it.
Swallow(t) ==
    /\ pc[t] = "catch"
    /\ exc' = Upd(exc, t, "none")
    /\ pc' = Upd(pc, t, "run")
    /\ Settled(t)
    /\ UNCHANGED <<graph, procs, m_process, scopeBase, canceller, g_errorSource,
                   task, pending, mons>>

\* The caller of the thread's outermost Process catches the exception.
ClientCatch(t) ==
    /\ pc[t] = "escaped"
    /\ scopeBase[t] = nullptr
    /\ exc' = Upd(exc, t, "none")
    /\ pc' = Upd(pc, t, "run")
    /\ Settled(t)
    /\ UNCHANGED <<graph, procs, m_process, scopeBase, canceller, g_errorSource,
                   task, pending, mons>>

\* Somebody cancels the canceller of the thread's context.
RequestCancel(t) ==
    /\ ~canceller[t]
    /\ canceller' = Upd(canceller, t, TRUE)
    /\ UNCHANGED <<graph, procs, m_process, scopeBase, exc, pc, g_errorSource,
                   task, pending, mons, errs>>

----------------------------------------------------------------------------
(* The monitor registry *)

\* Process::registerMonitor( m ) / Process::deregisterMonitor( m ) is called:
\* the thread enters BackgroundTask::cancelAllTasks().
RegistryCall(t, op, m) ==
    /\ pc[t] = "run"
    /\ calls < MaxCalls
    /\ calls' = calls + 1
    /\ pending' = Upd(pending, t, <<op, m>>)
    /\ canceller' = CancelAllTasks
    /\ pc' = Upd(pc, t, "quiesce")
    /\ regAt' = IF op = "insert" /\ ~monitorRegistered(m)
                     THEN Upd(regAt, m, nextId)
                     ELSE regAt
    /\ UNCHANGED <<graph, procs, m_process, scopeBase, exc, g_errorSource, task,
                   g_activeMonitors, started, finished, regOrder, registrations,
                   notified, errs>>

RegisterMonitor(t, m) == RegistryCall(t, "insert", m)

DeregisterMonitor(t, m) == RegistryCall(t, "erase", m)

\* cancelAllTasks() returns: the thread is about to change the registry.
CancelAllTasksReturn(t) ==
    /\ pc[t] = "quiesce"
    /\ TasksQuiesced
    /\ pc' = Upd(pc, t, "mutate")
    /\ UNCHANGED <<graph, procs, m_process, scopeBase, canceller, exc,
                   g_errorSource, task, pending, mons, errs>>

\* The insert or erase completes and the call returns.
MutateRegistry(t) ==
    /\ pc[t] = "mutate"
    /\ g_activeMonitors' =
           IF pending[t][1] = "insert"
           THEN registerMonitor(g_activeMonitors, pending[t][2])
           ELSE deregisterMonitor(g_activeMonitors, pending[t][2])
    /\ regOrder' =
           IF pending[t][1] = "insert"
           THEN Registered(regOrder, g_activeMonitors, pending[t][2])
           ELSE Deregistered(regOrder, pending[t][2])
    /\ registrations' =
           Upd(registrations, pending[t][2],
               IF pending[t][1] = "insert" THEN registrations[pending[t][2]] + 1 ELSE 0)
    /\ pending' = Upd(pending, t, <<"none", nullptr>>)
    /\ pc' = Upd(pc, t, "run")
    /\ UNCHANGED <<graph, procs, m_process, scopeBase, canceller, exc,
                   g_errorSource, task, started, finished, regAt, calls, notified,
                   errs>>

----------------------------------------------------------------------------
(* Background tasks *)

\* Thread u launches a BackgroundTask, with a canceller of its own, on thread t.
TaskStart(u, t) ==
    /\ pc[u] = "run"
    /\ ~task[t] /\ pc[t] = "run" /\ m_process[t] = nullptr
    /\ task' = Upd(task, t, TRUE)
    /\ canceller' = Upd(canceller, t, FALSE)
    /\ UNCHANGED <<graph, procs, m_process, scopeBase, exc, pc, g_errorSource,
                   pending, mons, errs>>

\* The task's function returns.
TaskEnd(t) ==
    /\ task[t] /\ pc[t] = "run" /\ m_process[t] = nullptr
    /\ task' = Upd(task, t, FALSE)
    /\ UNCHANGED <<graph, procs, m_process, scopeBase, canceller, exc, pc,
                   g_errorSource, pending, mons, errs>>

----------------------------------------------------------------------------
(* The main specification: one thread constructs and destroys Processes,     *)
(* raises and handles exceptions, and may be cancelled.  The monitors were   *)
(* registered before the first Process ran.                                   *)

Init ==
    /\ ChainGraph /\ InitProcs /\ InitThreads /\ InitMonitors
    /\ g_activeMonitors \in SUBSET Monitors
    /\ regOrder \in Orders(g_activeMonitors)
    /\ registrations = [m \in Monitors |-> IF m \in g_activeMonitors THEN 1 ELSE 0]

Next ==
    \/ \E t \in MainThreads, a \in ProcArgs : Construct(t, a[1], a[2])
    \/ \E t \in MainThreads : NotifyStarted(t)
    \/ \E t \in MainThreads : DestructBegin(t)
    \/ \E t \in MainThreads : DestructEnd(t)
    \/ \E t \in MainThreads, e \in {"typed", "untyped"} : Throw(t, e)
    \/ \E t \in MainThreads : HandleException(t)
    \/ \E t \in MainThreads : Swallow(t)
    \/ \E t \in MainThreads : ClientCatch(t)
    \/ \E t \in MainThreads : RequestCancel(t)

Spec == Init /\ [][Next]_vars

----------------------------------------------------------------------------
(* The registry specification: two threads construct and destroy Processes   *)
(* while the main thread registers and deregisters monitors and launches     *)
(* background tasks on the other thread; cancelAllTasks() cancels them.      *)

InitMon ==
    /\ ChainGraph /\ InitProcs /\ InitThreads /\ InitMonitors
    /\ g_activeMonitors = {}
    /\ regOrder = <<>>
    /\ registrations = [m \in Monitors |-> 0]

NextMon ==
    \/ \E t \in Threads : Construct(t, 1, nullptr)
    \/ \E t \in Threads : NotifyStarted(t)
    \/ \E t \in Threads : DestructBegin(t)
    \/ \E t \in Threads : DestructEnd(t)
    \/ \E t \in Threads : HandleException(t)
    \/ \E t \in Threads : ClientCatch(t)
    \/ \E t \in MainThreads, m \in Monitors : RegisterMonitor(t, m)
    \/ \E t \in MainThreads, m \in Monitors : DeregisterMonitor(t, m)
    \/ \E t \in MainThreads : CancelAllTasksReturn(t)
    \/ \E t \in MainThreads : MutateRegistry(t)
    \/ \E u \in MainThreads, t \in TaskThreads : TaskStart(u, t)
    \/ \E t \in TaskThreads : TaskEnd(t)

SpecMon == InitMon /\ [][NextMon]_vars

----------------------------------------------------------------------------
(* The stacks specification: two threads, each with a stack of its own,      *)
(* construct and destroy Processes, raise and handle exceptions, and may be  *)
(* cancelled.  No monitor is registered.                                      *)

NextStacks ==
    \/ \E t \in Threads : Construct(t, 1, nullptr)
    \/ \E t \in Threads : NotifyStarted(t)
    \/ \E t \in Threads : DestructBegin(t)
    \/ \E t \in Threads : DestructEnd(t)
    \/ \E t \in Threads : Throw(t, "typed")
    \/ \E t \in Threads : HandleException(t)
    \/ \E t \in Threads : Swallow(t)
    \/ \E t \in Threads : ClientCatch(t)
    \/ \E t \in Threads : RequestCancel(t)

SpecStacks == InitMon /\ [][NextStacks]_vars

----------------------------------------------------------------------------
(* The error reporting specification: over every graph of NumPlugs plugs     *)
(* whose connections run from higher to lower numbered plugs, optionally     *)
(* closed into a cycle by a connection from plug 1 to the last plug, a       *)
(* Process with any plug and any downstream plug has thrown an error; its    *)
(* handleException() reports it and the Process is destroyed.                *)

Graphs ==
    /\ input \in {f \in [Plugs -> Plugs \cup {nullptr}] :
                    /\ \A q \in Plugs \ {1} : f[q] < q
                    /\ f[1] \in {nullptr, NumPlugs}}
    /\ direction \in [Plugs -> {"In", "Out"}]
    /\ node \in [Plugs -> {nullptr, 1}]

InitEmit ==
    /\ Graphs
    /\ nextId = 2
    /\ pstate = [p \in ProcIds |-> IF p = 1 THEN "live" ELSE "unborn"]
    /\ owner = [p \in ProcIds |-> IF p = 1 THEN 1 ELSE nullptr]
    /\ \E pl \in Plugs, downstream \in Plugs \cup {nullptr} :
        /\ m_plug = [p \in ProcIds |-> IF p = 1 THEN pl ELSE nullptr]
        /\ m_downstream = [p \in ProcIds |->
                              IF p = 1 THEN InitDownstream(pl, downstream) ELSE nullptr]
    /\ m_parent = [p \in ProcIds |-> nullptr]
    /\ m_process = [t \in Threads |-> IF t = 1 THEN 1 ELSE nullptr]
    /\ scopeBase = [t \in Threads |-> nullptr]
    /\ canceller = [t \in Threads |-> FALSE]
    /\ exc \in {[t \in Threads |-> IF t = 1 THEN e ELSE "none"] : e \in {"typed", "untyped"}}
    /\ pc = [t \in Threads |-> IF t = 1 THEN "catch" ELSE "run"]
    /\ g_errorSource = [t \in Threads |-> nullptr]
    /\ task = [t \in Threads |-> FALSE]
    /\ pending = [t \in Threads |-> <<"none", nullptr>>]
    /\ signals = [t \in Threads |-> <<>>]
    /\ observed = [t \in Threads |-> <<>>]
    /\ srcAtThrow = [t \in Threads |-> nullptr]
    /\ InitMonitors
    /\ g_activeMonitors = {}
    /\ regOrder = <<>>
    /\ registrations = [m \in Monitors |-> 0]

NextEmit ==
    \/ \E t \in MainThreads : HandleException(t)
    \/ \E t \in MainThreads : DestructBegin(t)
    \/ \E t \in MainThreads : DestructEnd(t)

SpecEmit == InitEmit /\ [][NextEmit]_vars

----------------------------------------------------------------------------
(* Work handed to another thread with the thread state propagated *)

\* The computation of thread u's current Process hands work to the idle thread
\* t and waits for it; t runs the work inside a ThreadState::Scope holding u's
\* thread state, so that u's current Process is t's current Process too.
Spawn(u, t) ==
    /\ u # t
    /\ pc[u] = "run" /\ m_process[u] # scopeBase[u]
    /\ pc[t] = "run" /\ m_process[t] = nullptr /\ ~task[t]
    /\ scopeBase' = Upd(scopeBase, t, m_process[u])
    /\ m_process' = Upd(m_process, t, m_process[u])
    /\ canceller' = Upd(canceller, t, canceller[u])
    /\ pc' = Upd(pc, u, "wait")
    /\ UNCHANGED <<graph, procs, exc, g_errorSource, task, pending, mons, errs>>

\* The work on thread t is over, normally or with an exception, which is then
\* rethrown on the waiting thread u, inside its current Process; the
\* ThreadState::Scope ends and t is idle again.
Join(u, t) ==
    /\ pc[u] = "wait"
    /\ scopeBase[t] # nullptr /\ m_process[t] = scopeBase[t]
    /\ pc[t] \in {"run", "escaped"}
    /\ scopeBase' = Upd(scopeBase, t, nullptr)
    /\ m_process' = Upd(m_process, t, nullptr)
    /\ exc' = [exc EXCEPT ![u] = exc[t], ![t] = "none"]
    /\ pc' = [pc EXCEPT ![u] = IF exc[t] = "none" THEN "run" ELSE "catch", ![t] = "run"]
    /\ signals' = [signals EXCEPT ![u] = <<>>, ![t] = <<>>]
    /\ observed' = [observed EXCEPT ![u] = <<>>, ![t] = <<>>]
    /\ srcAtThrow' = [srcAtThrow EXCEPT ![u] = g_errorSource[u], ![t] = nullptr]
    /\ UNCHANGED <<graph, procs, canceller, g_errorSource, task, pending, mons>>

(* The propagation specification: the main thread's Processes hand work to   *)
(* the other thread, which constructs Processes below them; errors unwind    *)
(* through both threads.  No monitor is registered.                          *)

NextProp ==
    \/ \E t \in Threads, a \in ProcArgs : Construct(t, a[1], a[2])
    \/ \E t \in Threads : NotifyStarted(t)
    \/ \E t \in Threads : DestructBegin(t)
    \/ \E t \in Threads : DestructEnd(t)
    \/ \E t \in Threads : Throw(t, "typed")
    \/ \E t \in Threads : HandleException(t)
    \/ \E t \in Threads : ClientCatch(t)
    \/ \E u \in MainThreads, t \in Threads : Spawn(u, t)
    \/ \E u \in MainThreads, t \in Threads : Join(u, t)

SpecProp == InitMon /\ [][NextProp]_vars

----------------------------------------------------------------------------
(* Claims *)

\* C1: on every thread, current() is the most recently constructed Process of
\* the thread that is not yet destroyed (null if there is none), and the parent
\* of every live Process is the live Process of the thread constructed just
\* before it (null only for the oldest one): the parent chain from current()
\* visits the thread's live Processes in reverse order of construction.
C1_CurrentIsNewestAndChainIsLifo ==
    \A t \in Threads :
        /\ current(t) = Newest(LiveOn(t))
        /\ \A p \in LiveOn(t) : parent(p) = Newest({q \in LiveOn(t) : q < p})

\* Thread 1 constructed Processes 1 and 2, destroyed 2 and constructed 3 inside
\* 1, while thread 2 is inside a Process of its own.
C1_Witness ==
    /\ LiveOn(1) = {1, 3}
    /\ pstate[2] = "dead" /\ owner[2] = 1
    /\ current(1) = 3 /\ parent(3) = 1

\* Thread t's step is a failed or successful Process construction.
Constructs(t) == nextId' # nextId /\ owner'[nextId] = t

\* Thread t's step is a call of handleException().
Handles(t) == pc[t] = "catch" /\ Len(observed'[t]) = Len(observed[t]) + 1

\* Process p is linked nowhere and no monitor was told about it.
Invisible(p) ==
    /\ \A t \in Threads : current(t) # p
    /\ \A q \in ProcIds : parent(q) # p
    /\ \A m \in Monitors : p \notin started[m] \cup finished[m]

\* C2: a Process construction on a thread whose canceller is cancelled fails
\* with Cancelled, leaves the current Process of every thread unchanged and
\* calls processStarted on no monitor; the Process is never linked and no
\* monitor is ever told that it started or finished.
C2_CancelledConstructionIsInvisible ==
    /\ [][\A t \in Threads :
            Constructs(t) /\ canceller[t] =>
                /\ exc'[t] = "Cancelled"
                /\ pstate'[nextId] = "cancelled"
                /\ m_process' = m_process
                /\ started' = started]_vars
    /\ [](\A p \in ProcIds : pstate[p] = "cancelled" => Invisible(p))

\* A construction failed inside two nested Processes while every monitor was
\* registered; the cancellation has unwound both, and the monitors were told
\* about these two only.
C2_Witness ==
    /\ pstate[1] = "dead" /\ pstate[2] = "dead" /\ pstate[3] = "cancelled"
    /\ g_activeMonitors = Monitors
    /\ \A m \in Monitors : started[m] = {1, 2} /\ finished[m] = {1, 2}
    /\ exc[1] = "Cancelled" /\ pc[1] = "escaped" /\ current(1) = nullptr

\* The plug of the first Process whose handleException() saw the active
\* exception of thread t.
FirstObserved(t) == plug(observed[t][1])

\* The exception of thread t is an error that was raised while the thread had
\* no error source recorded, and some handleException() has seen it.
CleanUnwind(t) ==
    /\ exc[t] \in {"typed", "untyped"}
    /\ observed[t] # <<>>
    /\ srcAtThrow[t] = nullptr

C6_CancellationIsNotReported ==
    [][\A t \in Threads :
        Handles(t) /\ exc[t] = "Cancelled" =>
            /\ signals'[t] = signals[t]
            /\ g_errorSource'[t] = g_errorSource[t]
            /\ exc'[t] = "Cancelled"
            /\ pc'[t] = "unwind"]_vars

\* A cancellation raised by a failed construction is leaving the Process whose
\* handleException() saw it; nothing was reported or recorded.
C6_Witness ==
    /\ exc[1] = "Cancelled" /\ pc[1] = "unwind"
    /\ observed[1] = <<1>>
    /\ signals[1] = <<>> /\ g_errorSource[1] = nullptr

\* C7: handleException() never returns: whatever the active exception, the
\* same exception leaves the function, and it is still the active exception
\* when the Process has been destroyed.
C7_AlwaysRethrows ==
    [][\A t \in Threads :
        /\ Handles(t) => exc'[t] = exc[t] /\ exc[t] # "none" /\ pc'[t] = "unwind"
        /\ pc[t] \in {"unwind", "dtor"} => exc'[t] = exc[t]]_vars

\* An untyped exception was handled by two nested Processes in turn and has
\* reached the caller of the outer one.
C7_Witness ==
    /\ exc[1] = "untyped" /\ pc[1] = "escaped"
    /\ observed[1] = <<2, 1>>

\* The plug k input connections upstream of plug q (null past the end).
RECURSIVE Up(_, _)
Up(q, k) == IF k = 0 \/ q = nullptr THEN q ELSE Up(input[q], k - 1)

\* The input connections upstream of plug q end: they do not run into a cycle.
ChainEnds(q) == \E k \in 0 .. NumPlugs : Up(q, k) = nullptr

\* Plug `target` lies on the input chain of plug q.
OnChain(target, q) == \E k \in 0 .. NumPlugs - 1 : Up(q, k) = target

\* The number of connections from plug q up to plug r on its chain.
Depth(q, r) == CHOOSE k \in 0 .. NumPlugs - 1 : Up(q, k) = r

\* The plugs from the downstream plug of Process p up to and including its plug
\* that are output plugs of a node.
Reportable(p) ==
    {q \in Plugs : /\ OnChain(q, m_downstream[p])
                   /\ Depth(m_downstream[p], q) <= Depth(m_downstream[p], plug(p))
                   /\ direction[q] = "Out"
                   /\ node[q] # nullptr}

\* The message handleException() passes to emitError() for exception e.
Message(e) == IF e = "typed" THEN what(e) ELSE "Unknown error"

\* Thread t reported its active error once, from its current Process, whose
\* plug lies on the acyclic input chain of its downstream plug.
ReportedOnChain(t) ==
    /\ exc[t] \in {"typed", "untyped"}
    /\ Len(observed[t]) = 1
    /\ current(t) = observed[t][1]
    /\ ChainEnds(m_downstream[current(t)])
    /\ OnChain(plug(current(t)), m_downstream[current(t)])

\* C8: when the plug of a Process lies on the acyclic input chain of its
\* downstream plug, emitError() ends and has called errorSignal exactly once
\* for each output plug with a node from the downstream plug up to and
\* including the Process's plug, in downstream-to-upstream order, on the
\* plug's node, with the thread's error source and the message; it called it
\* for no other plug, so for none upstream of the Process's plug.
C8_EmitErrorReportsChainToTarget ==
    \A t \in Threads :
        ReportedOnChain(t) =>
            LET p == current(t)
                s == signals[t]
            IN  /\ pc[t] # "hung"
                /\ {s[i].plug : i \in 1 .. Len(s)} = Reportable(p)
                /\ Len(s) = Cardinality(Reportable(p))
                /\ \A i, j \in 1 .. Len(s) :
                       i < j => Depth(m_downstream[p], s[i].plug)
                                    < Depth(m_downstream[p], s[j].plug)
                /\ \A i \in 1 .. Len(s) :
                       /\ s[i].node = node[s[i].plug]
                       /\ s[i].source = g_errorSource[t]
                       /\ s[i].error = Message(exc[t])

\* The Process's plug 2 is the input of its downstream plug 3 and has plug 1 as
\* its own input; all three are output plugs with nodes.  Plugs 3 and 2 were
\* reported, in this order, and plug 1 was not.
C8_Witness ==
    /\ ReportedOnChain(1)
    /\ m_downstream[1] = 3 /\ plug(1) = 2
    /\ input[3] = 2 /\ input[2] = 1
    /\ \A q \in Plugs : direction[q] = "Out" /\ node[q] # nullptr
    /\ pc[1] = "unwind"
    /\ [i \in 1 .. Len(signals[1]) |-> signals[1][i].plug] = <<3, 2>>

\* C3: no monitor is told that a Process finished without having been told
\* that it started, and once no Process is live every monitor has received as
\* many processStarted as processFinished calls.
C3_StartsAndFinishesBalance ==
    /\ \A m \in Monitors : finished[m] \subseteq started[m]
    /\ LiveProcs = {} =>
           \A m \in Monitors : Cardinality(started[m]) = Cardinality(finished[m])

\* C9: no thread inserts into or erases from the registry while another thread
\* is in a loop over the registry.
C9_NoMutationDuringNotification ==
    \A t, u \in Threads :
        ~(t # u /\ pc[t] = "mutate" /\ pc[u] \in {"ctor", "dtor"})

\* The Processes monitor m is told about in this step.
NewlyTold(m) == (started'[m] \cup finished'[m]) \ (started[m] \cup finished[m])

\* C10: registerMonitor( m ) inserts m only once no background task runs; when
\* it returns m is registered; and m is told only about Processes constructed
\* after the call.
C10_RegisteredMonitorSeesLaterProcessesOnly ==
    /\ [](\A t \in Threads : pc[t] = "mutate" => TasksQuiesced)
    /\ [][\A t \in Threads :
            pc[t] = "mutate" /\ pending[t][1] = "insert" /\ pc'[t] = "run"
                => pending[t][2] \in g_activeMonitors']_vars
    /\ [][\A m \in Monitors : \A p \in NewlyTold(m) : p >= regAt[m]]_vars

\* C5: every Process constructed without a parent is constructed on a thread
\* whose error source is empty.
C5_RootStartsWithoutErrorSource ==
    [][\A t \in Threads :
        Constructs(t) /\ pstate'[nextId] = "live" /\ m_parent'[nextId] = nullptr
            => g_errorSource[t] = nullptr]_vars

\* The position of monitor m in the sequence s of distinct monitors (0 if absent).
Position(s, m) == IF \E i \in 1 .. Len(s) : s[i] = m
                  THEN CHOOSE i \in 1 .. Len(s) : s[i] = m
                  ELSE 0

\* Thread t's step is a complete loop over the registry, in the constructor or
\* in the destructor of a Process.
Notifies(t) == pc[t] \in {"ctor", "dtor"} /\ pc'[t] # pc[t]

\* C11: in every loop over the registry, of a constructor or of a destructor,
\* any two registered monitors are called in the order in which they were
\* registered.
C11_NotifiedInRegistrationOrder ==
    [][\A t \in Threads :
        Notifies(t) =>
            \A i, j \in 1 .. Len(notified') :
                /\ i < j
                /\ Position(regOrder, notified'[i]) # 0
                /\ Position(regOrder, notified'[j]) # 0
                => Position(regOrder, notified'[i]) < Position(regOrder, notified'[j])]_vars

\* Thread t's step is the return of deregisterMonitor( m ).
Deregisters(t, m) == pc[t] = "mutate" /\ pending[t] = <<"erase", m>> /\ pc'[t] = "run"

\* C12: deregisterMonitor( m ) of a monitor that is not registered leaves
\* monitorRegistered( m ) false; after registerMonitor( m ) was called twice,
\* one deregisterMonitor( m ) leaves monitorRegistered( m ) true, so that the
\* loops over the registry still call m.
C12_DeregisterOfUnregisteredAndOfTwiceRegistered ==
    [][\A t \in Threads, m \in Monitors :
        Deregisters(t, m) =>
            /\ ~monitorRegistered(m) => ~monitorRegistered(m)'
            /\ registrations[m] = 2 => monitorRegistered(m)']_vars

\* C13: while an error unwinds, whether or not an earlier error of the same
\* root computation was caught and not rethrown at an intermediate Process,
\* every errorSignal call carries as source the plug of the innermost Process
\* whose handleException() saw the error first.
C13_SourceIsFirstObserverOfThisError ==
    \A t \in Threads :
        exc[t] \in {"typed", "untyped"} /\ observed[t] # <<>> =>
            \A i \in 1 .. Len(signals[t]) : signals[t][i].source = FirstObserved(t)

\* C14: a cancellation requested on a thread leaves the thread's current
\* Process, every Process's state and the active exception as they are; the
\* destructor of a Process of a cancelled thread still calls processFinished on
\* every registered monitor and completes; and the next construction on the
\* thread fails with Cancelled.
C14_CancellationWaitsForNextConstruction ==
    /\ [][\A t \in Threads :
            ~canceller[t] /\ canceller'[t] =>
                /\ m_process' = m_process /\ pstate' = pstate
                /\ exc' = exc /\ pc' = pc
                /\ finished' = finished]_vars
    /\ [][\A t \in Threads :
            canceller[t] /\ pc[t] = "dtor" /\ pc'[t] # "dtor" =>
                /\ pstate'[current(t)] = "dead"
                /\ \A m \in g_activeMonitors : current(t) \in finished'[m]
                /\ exc'[t] = exc[t]]_vars
    /\ [][\A t \in Threads :
            Constructs(t) /\ canceller[t] =>
                /\ exc'[t] = "Cancelled"
                /\ pstate'[nextId] = "cancelled"
                /\ \A q \in ProcIds \ {nextId} : pstate'[q] = pstate[q]]_vars

\* Process 1 was constructed, the thread was cancelled, and the construction of
\* Process 2 inside Process 1 failed; the cancellation has unwound Process 1,
\* whose processFinished every monitor received.
C14_Witness ==
    /\ canceller[1]
    /\ pstate[1] = "dead" /\ pstate[2] = "cancelled"
    /\ exc[1] = "Cancelled" /\ observed[1] = <<1>> /\ pc[1] = "escaped"
    /\ g_activeMonitors = Monitors
    /\ \A m \in Monitors : started[m] = {1} /\ finished[m] = {1}

\* The errorSignal calls that thread t made from Process p for its active
\* exception, in order.
ReportsOf(t, p) == SelectSeq(signals[t], LAMBDA x : x.proc = p)

\* C15: while an error unwinds through nested Processes that each call
\* handleException(), emitError() has run exactly once for each level the error
\* has passed, in the order of the levels: the errorSignal calls of each level
\* are exactly those of one walk from the level's own downstream plug up to its
\* plug, with the exception's message for a typed exception and "Unknown error"
\* for an untyped one.
C15_EmitErrorOncePerLevel ==
    \A t \in Threads :
        exc[t] \in {"typed", "untyped"} =>
            LET s == signals[t]
                o == observed[t]
            IN  /\ \A i, j \in 1 .. Len(o) : i # j => o[i] # o[j]
                /\ \A i \in 1 .. Len(s) : Position(o, s[i].proc) # 0
                /\ \A i, j \in 1 .. Len(s) :
                       i < j => Position(o, s[i].proc) <= Position(o, s[j].proc)
                /\ \A k \in 1 .. Len(o) :
                       LET p == o[k]
                           b == ReportsOf(t, p)
                       IN  /\ {b[i].plug : i \in 1 .. Len(b)} = Reportable(p)
                           /\ Len(b) = Cardinality(Reportable(p))
                           /\ \A i, j \in 1 .. Len(b) :
                                  i < j => Depth(m_downstream[p], b[i].plug)
                                               < Depth(m_downstream[p], b[j].plug)
                           /\ \A i \in 1 .. Len(b) : b[i].error = Message(exc[t])

\* An untyped exception has unwound three nested Processes: the innermost on
\* plug 2, the middle one on plug 1, and the root on plug 1 with downstream
\* plug 3.  The three levels reported plugs 2; 1; 2 and 1.
C15_Witness ==
    /\ exc[1] = "untyped" /\ pc[1] = "escaped"
    /\ observed[1] = <<3, 2, 1>>
    /\ m_downstream[3] = 2 /\ m_downstream[2] = 1 /\ m_downstream[1] = 3
    /\ [i \in 1 .. Len(signals[1]) |-> signals[1][i].plug] = <<2, 1, 2, 1>>
    /\ \A i \in 1 .. Len(signals[1]) : signals[1][i].error = "Unknown error"

\* C16: while one error unwinds through nested Processes, errorSignal is
\* called at most once for each plug, whichever levels' walks the plug lies on.
C16_EachPlugReportedAtMostOnce ==
    \A t \in Threads :
        exc[t] \in {"typed", "untyped"} =>
            \A i, j \in 1 .. Len(signals[t]) :
                i # j => signals[t][i].plug # signals[t][j].plug

\* Thread t reported its active error once, from its current Process, which
\* was constructed with its plug as downstream plug.
ReportedAtTarget(t) ==
    /\ exc[t] \in {"typed", "untyped"}
    /\ Len(observed[t]) = 1
    /\ current(t) = observed[t][1]
    /\ m_downstream[current(t)] = plug(current(t))

\* C17 as stated: with the Process's plug as downstream plug, emitError() ends
\* and calls errorSignal exactly once, for the Process's plug on that plug's
\* node, whatever the plug's direction and input.
C17_ExactlyOneCallbackAtTarget ==
    \A t \in Threads :
        ReportedAtTarget(t) =>
            /\ pc[t] # "hung"
            /\ Len(signals[t]) = 1
            /\ signals[t][1].plug = plug(current(t))
            /\ signals[t][1].node = node[plug(current(t))]

\* C17, amended: with the Process's plug as downstream plug, emitError() ends
\* and calls errorSignal for no plug but the Process's plug, whatever the
\* plug's input: exactly once, on the plug's node, if the plug is an output
\* plug of a node, and not at all otherwise.
C17_AtMostTargetReported ==
    \A t \in Threads :
        ReportedAtTarget(t) =>
            LET q == plug(current(t))
                s == signals[t]
            IN  /\ pc[t] # "hung"
                /\ \A i \in 1 .. Len(s) : s[i].plug = q /\ s[i].node = node[q]
                /\ Len(s) = IF direction[q] = "Out" /\ node[q] # nullptr THEN 1 ELSE 0

\* The Process's plug 2 is an output plug of a node and has the output plug 1
\* of a node as its input; plug 2 was reported and plug 1 was not.
C17_Witness ==
    /\ ReportedAtTarget(1)
    /\ plug(1) = 2 /\ input[2] = 1
    /\ direction[2] = "Out" /\ node[2] # nullptr
    /\ direction[1] = "Out" /\ node[1] # nullptr
    /\ pc[1] = "unwind"
    /\ Len(signals[1]) = 1 /\ signals[1][1].plug = 2

\* Thread t's step is the end of the destructor of its current Process.
Destroys(t) == pc[t] = "dtor" /\ pc'[t] # "dtor"

\* C18: the destruction of a Process with a parent leaves every thread's error
\* source as it was; the destruction of a Process without parent empties the
\* error source of the destroying thread and leaves that of every other thread
\* as it was; and nothing else empties an error source.
C18_OnlyRootDestructionClearsOwnThread ==
    [][\A t \in Threads :
        /\ Destroys(t) /\ parent(current(t)) # nullptr =>
               g_errorSource' = g_errorSource
        /\ Destroys(t) /\ parent(current(t)) = nullptr =>
               /\ g_errorSource'[t] = nullptr
               /\ \A u \in Threads \ {t} : g_errorSource'[u] = g_errorSource[u]
        /\ g_errorSource[t] # nullptr /\ g_errorSource'[t] = nullptr =>
               Destroys(t) /\ parent(current(t)) = nullptr]_vars

\* On thread 1 an error left Process 2, which has parent 1 and is destroyed, and
\* the thread's error source is still the plug recorded for it.  On thread 2 an
\* error left the root Process 3, whose destruction emptied that thread's
\* error source.
C18_Witness ==
    /\ pstate[1] = "live" /\ owner[1] = 1
    /\ pstate[2] = "dead" /\ parent(2) = 1
    /\ exc[1] = "typed" /\ observed[1] = <<2>> /\ pc[1] = "catch"
    /\ g_errorSource[1] = plug(2)
    /\ pstate[3] = "dead" /\ owner[3] = 2 /\ parent(3) = nullptr
    /\ exc[2] = "typed" /\ observed[2] = <<3>> /\ pc[2] = "escaped"
    /\ g_errorSource[2] = nullptr

\* C19: a thread that is in the constructor's or the destructor's loop over
\* the monitors has the Process under construction or destruction as its
\* current Process; the constructor stored the Process that was current before
\* as the parent and made the new Process current before it called any monitor;
\* and the loops tell the monitors about that Process only, so that the
\* Process is unlinked only after the destructor's loop.
C19_CallbacksSeeProcessLinked ==
    /\ [](\A t \in Threads :
            pc[t] \in {"ctor", "dtor"} =>
                current(t) = Self(t) /\ pstate[current(t)] = "live")
    /\ [][\A t \in Threads :
            Constructs(t) /\ pstate'[nextId] = "live" =>
                /\ pc'[t] = "ctor"
                /\ m_process'[t] = nextId
                /\ m_parent'[nextId] = current(t)
                /\ started' = started]_vars
    /\ [][\A t \in Threads :
            Notifies(t) =>
                /\ current(t) # nullptr
                /\ m_parent'[current(t)] = parent(current(t))
                /\ \A m \in Monitors :
                       /\ started'[m] \ started[m] \subseteq {current(t)}
                       /\ finished'[m] \ finished[m] \subseteq {current(t)}
                /\ pc[t] = "ctor" => m_process'[t] = current(t)]_vars

\* Process 2 was constructed inside Process 1 while every monitor was
\* registered; the thread is in the destructor of Process 2, which every monitor
\* was told has started, and Process 2 is still current with parent 1.
C19_Witness ==
    /\ g_activeMonitors = Monitors
    /\ pc[1] = "dtor" /\ LiveOn(1) = {1, 2}
    /\ current(1) = 2 /\ parent(2) = 1
    /\ \A m \in Monitors : started[m] = {1, 2} /\ finished[m] = {}

====
